---------------------------- MODULE Spec2Model ----------------------------
(***************************************************************************)
(* Model of spicydev/create-pdf: the batch downloader (download_chapters,  *)
(* download_chapter, download_image) and the sorter/assembler              *)
(* (generate_pdf), for both scripts of the repository: create_pdf.py and   *)
(* the older create-pdf.py.                                                *)
(*                                                                         *)
(* Text is modelled as a sequence of code points, files as a record        *)
(* [exists, data].                                                         *)
(***************************************************************************)
EXTENDS Integers, Sequences, FiniteSets, TLC

(***************************************************************************)
(* Bounds.  The program's page range is range(1, 1000) and its chapter     *)
(* range is range(1, 20); the model runs the same loops over 1..LastPage   *)
(* and 1..NumChapters.                                                     *)
(***************************************************************************)
LastPage == 3
NumChapters == 2
MaxFaults == 1
\* the sorter is run on pages within SampleWidth of 1, 10, 100 and 999
SampleWidth == 1
\* the pool size is computed for the CPU counts 1..MaxCpuCount and for None
MaxCpuCount == 64

(***************************************************************************)
(* Program constants.                                                      *)
(***************************************************************************)
PoolCap == 32
DefaultCores == 8
OldPool == 8
\* range(1, 20) and range(1, 1000)
LastChapter == 19
TopPage == 999

Programs == {"create_pdf.py", "create-pdf.py"}

\* values of os.cpu_count(): None (modelled as 0), one core, two cores, and
\* a count above the cap of the pool
CpuCounts == {0, 1, 2, PoolCap + 1}

Pages == 1..LastPage
Chapters == 1..NumChapters

(***************************************************************************)
(* Text helpers.                                                           *)
(***************************************************************************)
NL == 10
SLASH == 47
DOT_JPG == <<46, 106, 112, 103>>
subject == <<83>>
chapter_prefix == <<65>>

Min(a, b) == IF a <= b THEN a ELSE b

RECURSIVE Digits(_)
\* f'{i}' : decimal representation of a natural number
Digits(n) == IF n < 10 THEN <<48 + n>> ELSE Digits(n \div 10) \o <<48 + (n % 10)>>

\* variant: f'{j}', no padding
Pad3_unpadded(j) == Digits(j)

\* f'{j:>03}' : right aligned, zero filled to a width of at least 3
Pad3(j) == LET d == Digits(j)
           IN  IF Len(d) >= 3 THEN d
               ELSE [k \in 1..(3 - Len(d)) |-> 48] \o d

\* chapter = chapter_prefix + f'{i}'
chapter(c) == chapter_prefix \o Digits(c)

\* image = f'{j:>03}' + '.jpg'
image(j) == Pad3(j) \o DOT_JPG

\* os.path.join(a, b) on posix, b relative
join_path(a, b) == a \o <<SLASH>> \o b

\* os.path.join(os.path.join(subject, chapter), image)
path(c, j) == join_path(join_path(subject, chapter(c)), image(j))

RECURSIVE splitlines(_)
\* str.splitlines() for text whose only line boundary is '\n'
splitlines(s) ==
    IF s = << >> THEN << >>
    ELSE IF \E k \in 1..Len(s) : s[k] = NL
         THEN LET k == CHOOSE k \in 1..Len(s) :
                           s[k] = NL /\ \A m \in 1..(k - 1) : s[m] # NL
              IN  <<SubSeq(s, 1, k - 1)>> \o splitlines(SubSeq(s, k + 1, Len(s)))
         ELSE <<s>>

RECURSIVE join_lines(_)
\* '\n'.join(lines)
join_lines(ls) ==
    IF ls = << >> THEN << >>
    ELSE IF Len(ls) = 1 THEN ls[1]
         ELSE ls[1] \o <<NL>> \o join_lines(Tail(ls))

RECURSIVE StrGreater(_, _)
\* variant: the comparison of sorted(..., reverse=True)
StrGreater(a, b) ==
    IF a = << >> THEN FALSE
    ELSE IF b = << >> THEN TRUE
    ELSE IF a[1] # b[1] THEN a[1] > b[1]
    ELSE StrGreater(Tail(a), Tail(b))

RECURSIVE StrLess(_, _)
\* a < b for Python str: lexicographic by code point
StrLess(a, b) ==
    IF b = << >> THEN FALSE
    ELSE IF a = << >> THEN TRUE
    ELSE IF a[1] # b[1] THEN a[1] < b[1]
    ELSE StrLess(Tail(a), Tail(b))

RECURSIVE Insert(_, _)
Insert(x, ls) ==
    IF ls = << >> THEN <<x>>
    ELSE IF StrLess(x, ls[1]) THEN <<x>> \o ls
    ELSE <<ls[1]>> \o Insert(x, Tail(ls))

RECURSIVE sorted(_)
\* sorted(list of str): stable, ascending
sorted(ls) == IF ls = << >> THEN << >>
              ELSE Insert(ls[Len(ls)], sorted(SubSeq(ls, 1, Len(ls) - 1)))

\* variant: the lines are joined as read, without sorted()
sort_manifest_as_read(s) == join_lines(splitlines(s))

\* '\n'.join(sorted(in_file.read().splitlines()))
sort_manifest(s) == join_lines(sorted(splitlines(s)))

(***************************************************************************)
(* Batch scheduling helpers.                                               *)
(***************************************************************************)
\* variant: os.cpu_count() or 4 + 4, without the min
n_cores_uncapped(prog, cpu) ==
    IF prog = "create_pdf.py"
    THEN IF cpu = 0 THEN DefaultCores ELSE cpu
    ELSE OldPool

\* n_cores = min(32, os.cpu_count() or 4 + 4); create-pdf.py uses 8
n_cores(prog, cpu) ==
    IF prog = "create_pdf.py"
    THEN Min(PoolCap, IF cpu = 0 THEN DefaultCores ELSE cpu)
    ELSE OldPool

\* variant: range(1, 19)
chapter_in_range_short(c) == c < NumChapters

\* i in range(1, 20) for the value i reached by the loop of download_chapters
chapter_in_range(c) == c < NumChapters + 1

\* i in range(1, 1000, n_cores) for the value i reached by the loop
in_range(i) == i < LastPage + 1

\* the next value of the loop variable of range(1, 1000, n_cores)
next_i(i, K) == i + K

\* variant: the inner range runs one page too far down
params_overlap(i, K) ==
    LET n == Min(K + 1, i)
    IN  [k \in 1..n |-> i - k + 1]

\* variant: the inner range runs upward, range(i, i+n_cores) up to the last
\* page
params_upward(i, K) ==
    LET n == Min(K, LastPage - i + 1)
    IN  [k \in 1..n |-> i + k - 1]

\* params: the pages of range(i, i-n_cores, -1) with j > 0, in that order
params(i, K) ==
    LET n == Min(K, i)
    IN  [k \in 1..n |-> i - k + 1]

\* variant: the test is 'True in results'
stop_chapter_inverted(results) == \E k \in 1..Len(results) : results[k] = "True"

\* False in results
stop_chapter(results) == \E k \in 1..Len(results) : results[k] = "False"

\* variant: the try block covers the request only
download_image_except_narrow(site) ==
    IF site = "transport_error"
    THEN [state |-> "returned", ret |-> "False"]
    ELSE [state |-> "raised", ret |-> "none"]

\* what the try/except of download_image does with an exception raised at
\* a site of the try block: it is caught and the call returns False
download_image_except(site) == [state |-> "returned", ret |-> "False"]


(***************************************************************************)
(* State.                                                                  *)
(***************************************************************************)
VARIABLES
    program,      \* which script runs
    cpu,          \* value of os.cpu_count(), 0 for None
    pc,           \* position of the main thread
    raised,       \* site of the exception that reached the top level
    chap,         \* loop variable i of download_chapters
    i,            \* loop variable i of download_chapter
    tasks,        \* page -> call of download_image submitted to the pool
    dirs,         \* chapters whose directory subject/chapter exists
    images,       \* <<chapter, page>> of the image files on disk
    manifest,     \* subject-pages.txt
    sortedFile,   \* subject-sorted-pages.txt
    pdf,          \* byte stream returned by the OCR collaborator
    pdfFile,      \* subject.pdf
    faults,       \* exceptions injected so far
    log,          \* chapter lines printed by download_chapters
    attempted,    \* chapters handed to download_chapter, in call order
    batches,      \* chapter -> batches submitted, each its params
    reqCount,     \* chapter -> page -> number of calls of download_image
    resp,         \* chapter -> page -> what the HTTP collaborator gave
    thrown,       \* <<chapter, page, site>> of the exceptions raised in download_image
    ret           \* chapter -> page -> value returned by download_image

vars == <<program, cpu, pc, raised, chap, i, tasks, dirs, images, manifest,
          sortedFile, pdf, pdfFile, faults, log, attempted, batches,
          reqCount, resp, thrown, ret>>

fsVars == <<dirs, images, manifest>>
genVars == <<sortedFile, pdf, pdfFile>>
histVars == <<batches, reqCount, resp, thrown, ret>>

NoFile == [exists |-> FALSE, data |-> << >>]
EmptyFile == [exists |-> TRUE, data |-> << >>]

\* byte streams the OCR collaborator may return
PdfStreams == {<<37, 80, 68, 70>>, <<37, 80, 68, 70, 10>>}

NoTasks == [j \in {} |-> [state |-> "returned", ret |-> "none", buf |-> << >>]]

K == n_cores(program, cpu)

Init ==
    /\ program \in Programs
    /\ cpu \in CpuCounts
    /\ pc = "download_chapters"
    /\ raised = "none"
    /\ chap = 1
    /\ i = 1
    /\ tasks = NoTasks
    /\ dirs = {}
    /\ images = {}
    /\ manifest = NoFile
    /\ sortedFile = NoFile
    /\ pdf = << >>
    /\ pdfFile = NoFile
    /\ faults = 0
    /\ log = << >>
    /\ attempted = << >>
    /\ batches = [c \in Chapters |-> << >>]
    /\ reqCount = [c \in Chapters |-> [p \in Pages |-> 0]]
    /\ resp = [c \in Chapters |-> [p \in Pages |-> "none"]]
    /\ thrown = {}
    /\ ret = [c \in Chapters |-> [p \in Pages |-> "none"]]

CanFault == faults < MaxFaults

(***************************************************************************)
(* download_chapters: the chapter loop.                                    *)
(***************************************************************************)
\* for i in range(1,20): print, call download_chapter; after the loop
\* create_pdf goes on to generate_pdf
NextChapter ==
    /\ pc = "download_chapters"
    /\ IF chapter_in_range(chap)
       THEN /\ log' = Append(log, <<"Downloading", chap>>)
            /\ attempted' = Append(attempted, chap)
            /\ i' = 1
            /\ pc' = "download_chapter"
       ELSE /\ pc' = "generate_pdf"
            /\ UNCHANGED <<log, attempted, i>>
    /\ UNCHANGED <<program, cpu, raised, chap, tasks, fsVars, genVars,
                   faults, histVars>>

(***************************************************************************)
(* download_chapter: the batch loop.                                       *)
(***************************************************************************)
\* one iteration of the loop up to executor.map: build params, submit them
Submit ==
    /\ pc = "download_chapter"
    /\ in_range(i)
    /\ LET ps == params(i, K)
           js == {ps[k] : k \in 1..Len(ps)}
       IN  /\ tasks' = [j \in js |-> [state |-> "get", ret |-> "none", buf |-> << >>]]
           /\ batches' = [batches EXCEPT ![chap] = Append(@, ps)]
           /\ reqCount' = [reqCount EXCEPT ![chap] =
                              [p \in Pages |-> IF p \in js THEN @[p] + 1 ELSE @[p]]]
    /\ pc' = "map"
    /\ UNCHANGED <<program, cpu, raised, chap, i, fsVars, genVars, faults,
                   log, attempted, resp, thrown, ret>>

\* the range is used up: return False; the caller prints nothing
Exhausted ==
    /\ pc = "download_chapter"
    /\ ~in_range(i)
    /\ chap' = chap + 1
    /\ pc' = "download_chapters"
    /\ UNCHANGED <<program, cpu, raised, i, tasks, fsVars, genVars, faults,
                   log, attempted, histVars>>

\* variant: the results are consumed as soon as one call has finished
AllFinished_first == \E j \in DOMAIN tasks : tasks[j].state \in {"returned", "raised"}

\* variant: a False result ends the wait and the pending calls are dropped
AllFinished_failfast ==
    \/ \A j \in DOMAIN tasks : tasks[j].state \in {"returned", "raised"}
    \/ \E j \in DOMAIN tasks : tasks[j].ret = "False"

\* list(executor.map(...)) has every result
AllFinished == \A j \in DOMAIN tasks : tasks[j].state \in {"returned", "raised"}

\* results = list(executor.map(...)); if False in results: return True
Join ==
    /\ pc = "map"
    /\ AllFinished
    /\ LET ps == params(i, K)
           results == [k \in 1..Len(ps) |-> tasks[ps[k]].ret]
       IN  IF \E j \in DOMAIN tasks : tasks[j].state = "raised"
           THEN /\ pc' = "aborted"
                /\ raised' = "download_image"
                /\ UNCHANGED <<chap, i, log>>
           ELSE IF stop_chapter(results)
           THEN /\ log' = Append(log, <<"Finished", chap>>)
                /\ chap' = chap + 1
                /\ pc' = "download_chapters"
                /\ UNCHANGED <<raised, i>>
           ELSE /\ i' = next_i(i, K)
                /\ pc' = "download_chapter"
                /\ UNCHANGED <<raised, chap, log>>
    /\ tasks' = NoTasks
    /\ UNCHANGED <<program, cpu, fsVars, genVars, faults, attempted, histVars>>

(***************************************************************************)
(* download_image: one call, run by a pool thread.                         *)
(***************************************************************************)
Move(j, st) == tasks' = [tasks EXCEPT ![j].state = st]

Finish(j, rec) ==
    /\ tasks' = [tasks EXCEPT ![j].state = rec.state, ![j].ret = rec.ret,
                              ![j].buf = << >>]
    /\ ret' = [ret EXCEPT ![chap][j] = rec.ret]

\* an exception raised inside the try block at the given site
Caught(j, site) ==
    /\ thrown' = thrown \cup {<<chap, j, site>>}
    /\ Finish(j, download_image_except(site))

\* an injected exception (transport, decode or filesystem error)
Throw(j, site) ==
    /\ CanFault
    /\ faults' = faults + 1
    /\ Caught(j, site)

\* requests.get, the status test and Image.open
Get(j) ==
    /\ j \in DOMAIN tasks
    /\ tasks[j].state = "get"
    /\ \E out \in {"ok", "non200", "transport_error", "undecodable"} :
          /\ resp' = [resp EXCEPT ![chap][j] = out]
          /\ CASE out = "ok" ->
                    /\ Move(j, "exists")
                    /\ UNCHANGED <<faults, thrown, ret>>
               [] out = "non200" ->
                    /\ Finish(j, [state |-> "returned", ret |-> "False"])
                    /\ UNCHANGED <<faults, thrown>>
               [] OTHER -> Throw(j, out)
    /\ UNCHANGED <<program, cpu, pc, raised, chap, i, fsVars, genVars, log,
                   attempted, batches, reqCount>>

\* if not os.path.exists(path)
Exists(j) ==
    /\ j \in DOMAIN tasks
    /\ tasks[j].state = "exists"
    /\ Move(j, IF chap \in dirs THEN "save" ELSE "makedirs")
    /\ UNCHANGED <<program, cpu, pc, raised, chap, i, fsVars, genVars, faults,
                   log, attempted, histVars>>

\* os.makedirs(path): FileExistsError when the directory is there by now
Makedirs(j) ==
    /\ j \in DOMAIN tasks
    /\ tasks[j].state = "makedirs"
    /\ IF chap \in dirs
       THEN /\ Caught(j, "makedirs")
            /\ UNCHANGED <<dirs, faults>>
       ELSE \/ /\ dirs' = dirs \cup {chap}
               /\ Move(j, "save")
               /\ UNCHANGED <<faults, thrown, ret>>
            \/ /\ Throw(j, "makedirs")
               /\ UNCHANGED dirs
    /\ UNCHANGED <<program, cpu, pc, raised, chap, i, images, manifest,
                   genVars, log, attempted, batches, reqCount, resp>>

\* img.save(path)
Save(j) ==
    /\ j \in DOMAIN tasks
    /\ tasks[j].state = "save"
    /\ \/ /\ images' = images \cup {<<chap, j>>}
          /\ Move(j, "append")
          /\ UNCHANGED <<faults, thrown, ret>>
       \/ /\ Throw(j, "save")
          /\ UNCHANGED images
    /\ UNCHANGED <<program, cpu, pc, raised, chap, i, dirs, manifest, genVars,
                   log, attempted, batches, reqCount, resp>>

\* variant: the manifest is opened with mode 'w'
open_append_truncate(f) == [exists |-> TRUE, data |-> << >>]

\* open(subject+'-pages.txt', mode='a'): the file is created when missing
\* and its content is kept
open_append(f) == [exists |-> TRUE, data |-> f.data]

\* variant: the file object is unbuffered, every write goes to the file
file_write_unbuffered(f, buf, s) ==
    [file |-> [exists |-> TRUE, data |-> f.data \o s], buf |-> buf]

\* file.write(s) on the text file object of one worker: s is added to the
\* buffer of the object (a path is far below the buffer size), the file
\* is left alone
file_write(f, buf, s) == [file |-> f, buf |-> buf \o s]

\* leaving the with-block closes the object: its buffer is flushed by one
\* write of a descriptor opened with O_APPEND, which lands at the end of
\* the file
file_close(f, buf) == [exists |-> TRUE, data |-> f.data \o buf]

\* with open(subject+'-pages.txt', mode='a') as file
OpenAppend(j) ==
    /\ j \in DOMAIN tasks
    /\ tasks[j].state = "append"
    /\ \/ /\ manifest' = open_append(manifest)
          /\ Move(j, "write_path")
          /\ UNCHANGED <<faults, thrown, ret>>
       \/ /\ Throw(j, "append")
          /\ UNCHANGED manifest
    /\ UNCHANGED <<program, cpu, pc, raised, chap, i, dirs, images, genVars,
                   log, attempted, batches, reqCount, resp>>

\* a file.write of the with-block, taking the worker to the given position
Write(j, s, st) ==
    LET w == file_write(manifest, tasks[j].buf, s)
    IN  /\ manifest' = w.file
        /\ tasks' = [tasks EXCEPT ![j].buf = w.buf, ![j].state = st]

\* file.write(path)
WritePath(j) ==
    /\ j \in DOMAIN tasks
    /\ tasks[j].state = "write_path"
    /\ Write(j, path(chap, j), "write_nl")
    /\ UNCHANGED <<program, cpu, pc, raised, chap, i, dirs, images, genVars,
                   faults, log, attempted, histVars>>

\* file.write('\n')
WriteNl(j) ==
    /\ j \in DOMAIN tasks
    /\ tasks[j].state = "write_nl"
    /\ Write(j, <<NL>>, "close")
    /\ UNCHANGED <<program, cpu, pc, raised, chap, i, dirs, images, genVars,
                   faults, log, attempted, histVars>>

\* end of the with-block, then return True
Close(j) ==
    /\ j \in DOMAIN tasks
    /\ tasks[j].state = "close"
    /\ manifest' = file_close(manifest, tasks[j].buf)
    /\ Finish(j, [state |-> "returned", ret |-> "True"])
    /\ UNCHANGED <<program, cpu, pc, raised, chap, i, dirs, images, genVars,
                   faults, log, attempted, batches, reqCount, resp, thrown>>

(***************************************************************************)
(* generate_pdf.                                                           *)
(***************************************************************************)
\* variant: the last byte of the buffer is not written
write_all_short(f, buf) ==
    [exists |-> TRUE, data |-> f.data \o SubSeq(buf, 1, Len(buf) - 1)]

\* out_file.write(buf) on a file just opened for writing
write_all(f, buf) == [exists |-> TRUE, data |-> f.data \o buf]

Abort(site) == pc' = "aborted" /\ raised' = site

Fail(site) == CanFault /\ faults' = faults + 1 /\ Abort(site)

\* variant: the manifest is opened with mode 'a+', which creates it
OpenManifest_create ==
    /\ pc = "generate_pdf"
    /\ manifest' = open_append(manifest)
    /\ pc' = "open_sorted"
    /\ UNCHANGED <<program, cpu, raised, chap, i, tasks, dirs, images, genVars,
                   faults, log, attempted, histVars>>

\* with open(subject+'-pages.txt') as in_file
OpenManifest ==
    /\ pc = "generate_pdf"
    /\ IF manifest.exists
       THEN pc' = "open_sorted" /\ UNCHANGED raised
       ELSE Abort("open_manifest")
    /\ UNCHANGED <<program, cpu, chap, i, tasks, fsVars, genVars, faults, log,
                   attempted, histVars>>

\* with open(subject+'-sorted-pages.txt', mode='w') as out_file
OpenSorted ==
    /\ pc = "open_sorted"
    /\ \/ /\ sortedFile' = EmptyFile
          /\ pc' = "write_sorted"
          /\ UNCHANGED <<raised, faults>>
       \/ /\ Fail("open_sorted")
          /\ UNCHANGED sortedFile
    /\ UNCHANGED <<program, cpu, chap, i, tasks, fsVars, pdf, pdfFile, log,
                   attempted, histVars>>

\* out_file.write('\n'.join(sorted(in_file.read().splitlines())))
WriteSorted ==
    /\ pc = "write_sorted"
    /\ \/ /\ sortedFile' = write_all(sortedFile, sort_manifest(manifest.data))
          /\ pc' = "ocr"
          /\ UNCHANGED <<raised, faults>>
       \/ /\ Fail("write_sorted")
          /\ UNCHANGED sortedFile
    /\ UNCHANGED <<program, cpu, chap, i, tasks, fsVars, pdf, pdfFile, log,
                   attempted, histVars>>

\* pdf = pytesseract.image_to_pdf_or_hocr(..., extension='pdf')
Ocr ==
    /\ pc = "ocr"
    /\ \/ /\ \E b \in PdfStreams : pdf' = b
          /\ pc' = "open_pdf"
          /\ UNCHANGED <<raised, faults>>
       \/ /\ Fail("ocr")
          /\ UNCHANGED pdf
    /\ UNCHANGED <<program, cpu, chap, i, tasks, fsVars, sortedFile, pdfFile,
                   log, attempted, histVars>>

\* open(subject+'.pdf', mode='w+b', encoding='utf-8') raises ValueError
\* before the file is touched; open(subject+'.pdf', 'w+b') creates it empty
open_pdf_ok(prog) == prog = "create-pdf.py"

OpenPdf ==
    /\ pc = "open_pdf"
    /\ \/ /\ open_pdf_ok(program)
          /\ pdfFile' = EmptyFile
          /\ pc' = "write_pdf"
          /\ UNCHANGED <<raised, faults>>
       \/ /\ ~open_pdf_ok(program)
          /\ Abort("open_pdf")
          /\ UNCHANGED <<pdfFile, faults>>
       \/ /\ open_pdf_ok(program)
          /\ Fail("open_pdf")
          /\ UNCHANGED pdfFile
    /\ UNCHANGED <<program, cpu, chap, i, tasks, fsVars, sortedFile, pdf, log,
                   attempted, histVars>>

\* out_file.write(pdf); out_file.close()
WritePdf ==
    /\ pc = "write_pdf"
    /\ \/ /\ pdfFile' = write_all(pdfFile, pdf)
          /\ pc' = "done"
          /\ UNCHANGED <<raised, faults>>
       \/ /\ Fail("write_pdf")
          /\ \E n \in 0..(Len(pdf) - 1) :
                pdfFile' = [exists |-> TRUE, data |-> SubSeq(pdf, 1, n)]
    /\ UNCHANGED <<program, cpu, chap, i, tasks, fsVars, sortedFile, pdf, log,
                   attempted, histVars>>

Next ==
    \/ NextChapter
    \/ Submit
    \/ Exhausted
    \/ Join
    \/ \E j \in Pages : Get(j)
    \/ \E j \in Pages : Exists(j)
    \/ \E j \in Pages : Makedirs(j)
    \/ \E j \in Pages : Save(j)
    \/ \E j \in Pages : OpenAppend(j)
    \/ \E j \in Pages : WritePath(j)
    \/ \E j \in Pages : WriteNl(j)
    \/ \E j \in Pages : Close(j)
    \/ OpenManifest
    \/ OpenSorted
    \/ WriteSorted
    \/ Ocr
    \/ OpenPdf
    \/ WritePdf

Spec == Init /\ [][Next]_vars

\* the steps of the download phase
DownloadStep ==
    \/ NextChapter
    \/ Submit
    \/ Exhausted
    \/ Join
    \/ \E j \in Pages : Get(j)
    \/ \E j \in Pages : Exists(j)
    \/ \E j \in Pages : Makedirs(j)
    \/ \E j \in Pages : Save(j)
    \/ \E j \in Pages : OpenAppend(j)
    \/ \E j \in Pages : WritePath(j)
    \/ \E j \in Pages : WriteNl(j)
    \/ \E j \in Pages : Close(j)

\* during the download phase the main thread and the pool threads keep
\* being scheduled, and every call made by a step returns or raises
\* (requests.get is given timeout=2 in create_pdf.py; create-pdf.py relies
\* on the server answering)
FairSpec == Spec /\ WF_vars(DownloadStep)

(***************************************************************************)
(* The sorter alone: lines 79-81 of generate_pdf run on a manifest that    *)
(* lists two images of the program's full ranges, chapters 1..19 and       *)
(* pages 1..999, or on no manifest.                                        *)
(***************************************************************************)
AllChapters == [k \in 1..NumChapters |-> k]

SortChapters == 1..LastChapter

PageSample ==
    {p \in 1..TopPage :
        \E b \in {1, 10, 100, TopPage} : p - b \in (0 - SampleWidth)..SampleWidth}

SortInit ==
    /\ program = "create_pdf.py"
    /\ cpu = 0
    /\ pc = "generate_pdf"
    /\ raised = "none"
    /\ chap = NumChapters + 1
    /\ i = 1
    /\ tasks = NoTasks
    /\ \/ /\ images = {}
          /\ dirs = {}
          /\ manifest = NoFile
       \/ \E a, b \in SortChapters \X PageSample :
             /\ a # b
             /\ images = {a, b}
             /\ dirs = {a[1], b[1]}
             /\ manifest = [exists |-> TRUE,
                            data |-> path(a[1], a[2]) \o <<NL>> \o
                                     path(b[1], b[2]) \o <<NL>>]
    /\ sortedFile = NoFile
    /\ pdf = << >>
    /\ pdfFile = NoFile
    /\ faults = 0
    /\ log = << >>
    /\ attempted = AllChapters
    /\ batches = [c \in Chapters |-> << >>]
    /\ reqCount = [c \in Chapters |-> [p \in Pages |-> 0]]
    /\ resp = [c \in Chapters |-> [p \in Pages |-> "none"]]
    /\ thrown = {}
    /\ ret = [c \in Chapters |-> [p \in Pages |-> "none"]]

SortNext ==
    \/ OpenManifest
    \/ OpenSorted
    \/ WriteSorted

SortSpec == SortInit /\ [][SortNext]_vars

(***************************************************************************)
(* Vocabulary of the properties.                                           *)
(***************************************************************************)
DownloadPcs == {"download_chapters", "download_chapter", "map"}

\* download_chapter(c) has returned
Returned(c) == c < chap

\* download_chapters has returned
Downloaded == pc \notin DownloadPcs /\ raised # "download_image"

Requested(c) == {p \in Pages : reqCount[c][p] > 0}

Saved(c) == {p \in Pages : <<c, p>> \in images}

NoFail(c) == \A p \in Pages : ret[c][p] # "False"

BatchPages(c, b) == {batches[c][b][k] : k \in 1..Len(batches[c][b])}

BatchFailed(c, b) == \E p \in BatchPages(c, b) : ret[c][p] = "False"

CeilDiv(a, b) == (a + b - 1) \div b

Lines == splitlines(manifest.data)

Count(ls, x) == Cardinality({k \in 1..Len(ls) : ls[k] = x})

Threw(c, p) == \E t \in thrown : t[1] = c /\ t[2] = p

(***************************************************************************)
(* C1: a chapter gets exactly ceil(LastPage/K) batches when no fetch       *)
(* fails, and otherwise exactly the batches up to and including the first  *)
(* one holding a failed fetch; nothing is requested after a failed batch.  *)
(***************************************************************************)
C1_BatchCount ==
    \A c \in Chapters :
        /\ \A b \in 1..(Len(batches[c]) - 1) : ~BatchFailed(c, b)
        /\ Requested(c) = UNION {BatchPages(c, b) : b \in 1..Len(batches[c])}
        /\ Returned(c) =>
              IF NoFail(c)
              THEN Len(batches[c]) = CeilDiv(LastPage, K)
              ELSE BatchFailed(c, Len(batches[c]))

\* one chapter ran through the range in several batches, another stopped
\* at a failed batch that was neither the first nor the last of the range
C1_Witness ==
    \E c1, c2 \in Chapters :
        /\ Returned(c1) /\ Returned(c2)
        /\ NoFail(c1) /\ Len(batches[c1]) >= 2
        /\ ~NoFail(c2)
        /\ Len(batches[c2]) >= 2
        /\ Len(batches[c2]) < CeilDiv(LastPage, K)

(***************************************************************************)
(* C2: download_image never raises: a non-200 response or an exception at  *)
(* any step gives False, and no exception leaves the download phase.       *)
(***************************************************************************)
C2_NeverRaises ==
    /\ \A c \in Chapters, p \in Pages :
          resp[c][p] \in {"non200", "transport_error", "undecodable"}
              => ret[c][p] = "False"
    /\ \A t \in thrown : ret[t[1]][t[2]] = "False"
    /\ \A j \in DOMAIN tasks : tasks[j].state # "raised"
    /\ raised # "download_image"
    /\ pc \in DownloadPcs => raised = "none"

\* a filesystem step threw in one chapter and the loop went on to the next
C2_Witness ==
    \E t \in thrown :
        /\ t[3] \in {"makedirs", "save", "append"}
        /\ Len(attempted) > t[1]
        /\ \E p \in Pages : resp[t[1]][p] = "non200"

(***************************************************************************)
(* C3 as stated: every fetch that got status 200 and a decodable body      *)
(* returns True, leaves its image file and exactly one manifest line.      *)
(***************************************************************************)
C3_Claim ==
    LET ls == Lines
    IN  \A c \in Chapters, p \in Pages :
            (resp[c][p] = "ok" /\ ret[c][p] # "none") =>
                /\ ret[c][p] = "True"
                /\ <<c, p>> \in images
                /\ Count(ls, path(c, p)) = 1

(***************************************************************************)
(* C3 amended: every fetch that got status 200 and a decodable body and    *)
(* in which no later step (makedirs, save, manifest append) threw returns  *)
(* True, leaves its image file and exactly one manifest line; and True is  *)
(* returned only when the image file and the manifest line are written.    *)
(***************************************************************************)
C3_Success ==
    LET ls == Lines
    IN  \A c \in Chapters, p \in Pages :
            /\ (resp[c][p] = "ok" /\ ret[c][p] # "none" /\ ~Threw(c, p)) =>
                  ret[c][p] = "True"
            /\ ret[c][p] = "True" =>
                  /\ resp[c][p] = "ok"
                  /\ <<c, p>> \in images
                  /\ Count(ls, path(c, p)) = 1

\* two fetches returned True, and one with a good response returned False
C3_Witness ==
    /\ \E c \in Chapters, p, q \in Pages :
          p # q /\ ret[c][p] = "True" /\ ret[c][q] = "True"
    /\ \E c \in Chapters, p \in Pages :
          resp[c][p] = "ok" /\ ret[c][p] = "False"

(***************************************************************************)
(* C4: the manifest holds exactly one line for each page whose fetch       *)
(* returned True and no other line, and no page is requested twice.        *)
(***************************************************************************)
C4_Manifest ==
    LET ls == Lines
    IN  /\ \A c \in Chapters, p \in Pages :
              /\ Count(ls, path(c, p)) = IF ret[c][p] = "True" THEN 1 ELSE 0
              /\ reqCount[c][p] <= 1
        /\ \A k \in 1..Len(ls) :
              \E c \in Chapters, p \in Pages : ls[k] = path(c, p)

\* after the last chapter: lines of two chapters, a failed page and a page
\* never requested
C4_Witness ==
    /\ Downloaded
    /\ \A c \in Chapters : \E p \in Pages : ret[c][p] = "True"
    /\ \E c \in Chapters, p, q \in Pages :
          ret[c][p] = "False" /\ reqCount[c][q] = 0

(***************************************************************************)
(* C5 as stated: if in every chapter the fetches of pages 1..m succeed     *)
(* and those of the pages above m fail, then exactly pages 1..m of every   *)
(* chapter are saved and the manifest has NumChapters*m lines.             *)
(***************************************************************************)
\* the run is one of the scenario: no step threw, and every request made
\* was answered 200 with an image for a page up to m, non-200 above m
DensePrefix(m) ==
    /\ thrown = {}
    /\ \A c \in Chapters : \A p \in Requested(c) :
          /\ resp[c][p] = IF p <= m THEN "ok" ELSE "non200"
          /\ ret[c][p] = IF p <= m THEN "True" ELSE "False"

C5_Claim ==
    Downloaded =>
        \A m \in 0..LastPage :
            DensePrefix(m) =>
                /\ \A c \in Chapters : Saved(c) = 1..m
                /\ Len(Lines) = NumChapters * m

(***************************************************************************)
(* C6: download_chapters terminates having called download_chapter for     *)
(* exactly the chapters 1..NumChapters, once each and in increasing order, *)
(* whatever the outcome of each chapter.                                   *)
(***************************************************************************)
C6_AllChapters ==
    /\ [](Len(attempted) <= NumChapters
            /\ attempted = SubSeq(AllChapters, 1, Len(attempted)))
    /\ <>(pc = "generate_pdf" /\ attempted = AllChapters)

\* download_chapters has returned after a chapter that stopped on a failed
\* batch, followed by another chapter, and a chapter that used up the range
C6_Witness ==
    /\ pc = "generate_pdf"
    /\ attempted = AllChapters
    /\ \E c1, c2 \in Chapters :
          /\ c1 < NumChapters /\ ~NoFail(c1)
          /\ NoFail(c2) /\ Len(batches[c2]) >= 2

(***************************************************************************)
(* C7 as stated: a run of download_chapter in which no fetch fails         *)
(* requests every page 1..LastPage exactly once, for every pool size.      *)
(***************************************************************************)
C7_Claim ==
    \A c \in Chapters :
        (Returned(c) /\ NoFail(c)) =>
            \A p \in Pages : reqCount[c][p] = 1

(***************************************************************************)
(* C8 as stated: when the manifest exists and the OCR collaborator         *)
(* returned a byte stream (and no I/O error was injected), create_pdf ends *)
(* with the sorted manifest written and subject.pdf holding exactly those  *)
(* bytes; generate_pdf runs only after all chapters were processed.        *)
(***************************************************************************)
GenPcs == {"generate_pdf", "open_sorted", "write_sorted", "ocr", "open_pdf",
           "write_pdf", "done"}

C8_Claim ==
    /\ (pc \in {"done", "aborted"} /\ manifest.exists /\ pdf \in PdfStreams
            /\ faults = 0) =>
          /\ sortedFile = [exists |-> TRUE, data |-> sort_manifest(manifest.data)]
          /\ pdfFile = [exists |-> TRUE, data |-> pdf]
    /\ (pc \in GenPcs \/ sortedFile.exists) =>
          /\ chap = NumChapters + 1
          /\ attempted = AllChapters

(***************************************************************************)
(* C9 as stated: when the manifest is already sorted, the sorted manifest  *)
(* file is identical to the manifest file, and sorting the sorted file     *)
(* again reproduces it.                                                    *)
(***************************************************************************)
RECURSIVE LexLeq(_, _)
LexLeq(a, b) ==
    IF a = << >> THEN TRUE
    ELSE IF b = << >> THEN FALSE
    ELSE IF a[1] # b[1] THEN a[1] < b[1]
    ELSE LexLeq(Tail(a), Tail(b))

IsSorted(ls) == \A k \in 1..(Len(ls) - 1) : LexLeq(ls[k], ls[k + 1])

\* line 81 has been executed
SortStepDone ==
    \/ pc \in {"ocr", "open_pdf", "write_pdf", "done"}
    \/ pc = "aborted" /\ raised \in {"ocr", "open_pdf", "write_pdf"}

C9_Claim ==
    (SortStepDone /\ IsSorted(Lines)) =>
        /\ sortedFile.data = manifest.data
        /\ sort_manifest(sortedFile.data) = sortedFile.data

(***************************************************************************)
(* C9 amended: when the manifest is already sorted, the sorted manifest    *)
(* file holds the same lines in the same order and differs from a          *)
(* non-empty manifest file only by the final newline, which it lacks;      *)
(* sorting the sorted file again reproduces it unchanged (for any          *)
(* manifest).                                                              *)
(***************************************************************************)
C9_Idempotent ==
    SortStepDone =>
        /\ sort_manifest(sortedFile.data) = sortedFile.data
        /\ IsSorted(Lines) =>
              /\ splitlines(sortedFile.data) = Lines
              /\ Len(Lines) > 0 => sortedFile.data \o <<NL>> = manifest.data

\* an already sorted manifest of several lines has been sorted
C9_Witness ==
    /\ SortStepDone
    /\ Len(Lines) >= 2
    /\ IsSorted(Lines)

(***************************************************************************)
(* C10 as stated, read once generate_pdf has returned or raised:           *)
(* subject.pdf either does not exist or holds the complete byte stream.    *)
(***************************************************************************)
C10_Claim ==
    (pc \in {"done", "aborted"} /\ pdfFile.exists) =>
        /\ pdf \in PdfStreams
        /\ pdfFile.data = pdf

(***************************************************************************)
(* C10 amended, for a run started without subject.pdf: the file holds the  *)
(* complete byte stream when generate_pdf returns normally and does not    *)
(* exist when generate_pdf fails before the artifact write (manifest or    *)
(* sorted file error, collaborator error, open error); the open creates    *)
(* it empty, so between the open and the end of the write, and after a     *)
(* write error, it exists empty or truncated.                              *)
(***************************************************************************)
C10_Artifact ==
    /\ pc = "done" =>
          /\ pdf \in PdfStreams
          /\ pdfFile = [exists |-> TRUE, data |-> pdf]
    /\ (pdfFile.exists /\ pdfFile.data # pdf) =>
          (pc = "write_pdf" \/ raised = "write_pdf")
    /\ raised \in {"open_manifest", "open_sorted", "write_sorted", "ocr",
                   "open_pdf"} => ~pdfFile.exists

\* generate_pdf returned normally with the artifact written
C10_Witness ==
    /\ pc = "done"
    /\ pdfFile.exists
    /\ Len(pdfFile.data) > 0

(***************************************************************************)
(* C11: join barrier.  The calls of download_image in flight all belong to *)
(* the batch last submitted for the current chapter; a batch is submitted  *)
(* only when every call submitted before, of any batch and any chapter,    *)
(* has returned; and the main thread leaves executor.map only when every   *)
(* call of the batch has returned, stopping the chapter exactly when one   *)
(* of the results is False.                                                *)
(***************************************************************************)
InFlight == {j \in DOMAIN tasks : tasks[j].state # "returned"}

C11_JoinBarrier ==
    /\ [](/\ pc # "map" => tasks = NoTasks
          /\ pc = "map" =>
                /\ Len(batches[chap]) > 0
                /\ DOMAIN tasks = BatchPages(chap, Len(batches[chap]))
          /\ \A c \in Chapters, p \in Pages :
                (reqCount[c][p] > 0 /\ ret[c][p] = "none") =>
                    /\ c = chap
                    /\ p \in InFlight)
    /\ [][reqCount' # reqCount =>
              \A c \in Chapters, p \in Pages :
                  reqCount[c][p] > 0 => ret[c][p] # "none"]_vars
    /\ [][(pc = "map" /\ pc' # "map") =>
              /\ InFlight = {}
              /\ chap' # chap <=> \E j \in DOMAIN tasks : tasks[j].ret = "False"]_vars

\* in the second chapter a batch of two calls is in flight, one of them
\* has returned and the other has not yet got its response
C11_Witness ==
    /\ pc = "map"
    /\ chap = 2
    /\ \E j, k \in DOMAIN tasks :
          /\ tasks[j].state = "returned"
          /\ tasks[k].state = "get"

(***************************************************************************)
(* C12: no cancellation.  A call in flight is never dropped, whatever the  *)
(* other calls of its batch returned; once the main thread is past a       *)
(* batch, every call of it got its response and returned, and every call   *)
(* of it that got a good response and in which nothing threw returned      *)
(* True with its image saved and its line in the manifest, also when       *)
(* another call of the batch returned False.                               *)
(***************************************************************************)
\* the main thread is past executor.map for batch b of chapter c
Joined(c, b) == c < chap \/ b < Len(batches[c]) \/ pc # "map"

C12_NoCancel ==
    /\ [](LET ls == Lines
          IN  \A c \in Chapters : \A b \in 1..Len(batches[c]) :
                  Joined(c, b) =>
                      \A p \in BatchPages(c, b) :
                          /\ resp[c][p] # "none"
                          /\ ret[c][p] # "none"
                          /\ (resp[c][p] = "ok" /\ ~Threw(c, p)) =>
                                /\ ret[c][p] = "True"
                                /\ <<c, p>> \in images
                                /\ Count(ls, path(c, p)) = 1)
    /\ [][\A j \in InFlight : j \in DOMAIN tasks']_vars

\* a batch of two calls is over: the lower page failed, the higher page
\* was saved and is listed in the manifest
C12_Witness ==
    \E c \in Chapters, p \in Pages :
        /\ Returned(c)
        /\ p + 1 \in Pages
        /\ \E b \in 1..Len(batches[c]) : {p, p + 1} \subseteq BatchPages(c, b)
        /\ ret[c][p] = "False"
        /\ ret[c][p + 1] = "True"
        /\ <<c, p + 1>> \in images
        /\ Count(Lines, path(c, p + 1)) = 1

(***************************************************************************)
(* C13 as stated: the b-th batch submitted for a chapter (b = 0, 1, ...)   *)
(* holds exactly the pages b*K+1 .. min((b+1)*K, LastPage).                *)
(***************************************************************************)
C13_Claim ==
    \A c \in Chapters : \A n \in 1..Len(batches[c]) :
        LET b == n - 1
        IN  BatchPages(c, n) = (b * K + 1)..Min((b + 1) * K, LastPage)

(***************************************************************************)
(* C14: concurrent manifest appends are line-atomic.  For every            *)
(* interleaving of the workers the manifest is a sequence of complete      *)
(* lines, each the full path of a saved image followed by a newline; the   *)
(* file grows only by one whole line of one worker at a time; and every    *)
(* call that returned True has its line (none is lost or merged).          *)
(***************************************************************************)
C14_LineAtomic ==
    /\ [](LET ls == Lines
          IN  /\ manifest.data # << >> => manifest.data[Len(manifest.data)] = NL
              /\ \A k \in 1..Len(ls) :
                    \E c \in Chapters, p \in Pages :
                        ls[k] = path(c, p) /\ <<c, p>> \in images
              /\ Len(ls) = Cardinality({cp \in Chapters \X Pages :
                                            ret[cp[1]][cp[2]] = "True"})
              /\ \A c \in Chapters, p \in Pages :
                    ret[c][p] = "True" => Count(ls, path(c, p)) = 1)
    /\ [][manifest'.data # manifest.data =>
              \E j \in DOMAIN tasks :
                  /\ manifest'.data = manifest.data \o path(chap, j) \o <<NL>>
                  /\ ret'[chap][j] = "True"]_vars

\* two workers of a batch are inside the with-block at once, one with its
\* path buffered and the newline not yet written, the other about to
\* close, and the manifest already holds a line
C14_Witness ==
    /\ pc = "map"
    /\ manifest.data # << >>
    /\ \E j, k \in DOMAIN tasks :
          /\ tasks[j].state = "write_nl"
          /\ tasks[j].buf = path(chap, j)
          /\ tasks[k].state = "close"
          /\ tasks[k].buf = path(chap, k) \o <<NL>>

(***************************************************************************)
(* C15 as stated: for every chapter handed to download_chapter the log     *)
(* has the line 'Downloading Chapter X', and once download_chapter has     *)
(* returned, whether it stopped on a failed batch or used up the page      *)
(* range, the line 'Finished Downloading Chapter X' right after it, before *)
(* the start line of the next chapter.                                     *)
(***************************************************************************)
C15_Claim ==
    \A c \in Chapters :
        /\ c <= Len(attempted) =>
              \E k \in 1..Len(log) : log[k] = <<"Downloading", c>>
        /\ Returned(c) =>
              \E k \in 1..(Len(log) - 1) :
                  /\ log[k] = <<"Downloading", c>>
                  /\ log[k + 1] = <<"Finished", c>>

(***************************************************************************)
(* C16: the test os.path.exists followed by os.makedirs never races.       *)
(* Whenever two or more calls of download_image are in flight the          *)
(* directory of the chapter exists; a call that has found the directory    *)
(* missing is alone in its batch, so the directory is still missing when   *)
(* it creates it, and no call fails because the directory appeared between *)
(* its test and its makedirs.                                              *)
(***************************************************************************)
C16_NoRace ==
    /\ Cardinality(InFlight) >= 2 => chap \in dirs
    /\ \A j \in DOMAIN tasks :
          tasks[j].state = "makedirs" =>
              /\ chap \notin dirs
              /\ DOMAIN tasks = {j}
    /\ \A t \in thrown : (t[3] = "makedirs") => faults > 0 /\ t[2] = 1

\* in a later batch two calls are in flight, both about to test for the
\* directory, which the single call of the first batch has created
C16_Witness ==
    /\ pc = "map"
    /\ chap \in dirs
    /\ \E j, k \in DOMAIN tasks :
          /\ j # k
          /\ tasks[j].state = "exists"
          /\ tasks[k].state = "exists"

(***************************************************************************)
(* C17: once line 81 has run, the sorted manifest file holds exactly the   *)
(* lines of the manifest, each as often as the manifest has it, in         *)
(* nondecreasing lexicographic order of the whole path; and no step of     *)
(* generate_pdf changes the manifest file.                                 *)
(***************************************************************************)
C17_SortedCopy ==
    /\ [](SortStepDone =>
            LET ls == Lines
                out == splitlines(sortedFile.data)
            IN  /\ Len(out) = Len(ls)
                /\ \A k \in 1..Len(ls) : Count(out, ls[k]) = Count(ls, ls[k])
                /\ \A k \in 1..Len(out) : Count(ls, out[k]) = Count(out, out[k])
                /\ IsSorted(out))
    /\ [][(pc \in GenPcs) => UNCHANGED manifest]_vars

\* a manifest of lines of two chapters that was not in order has been sorted
C17_Witness ==
    /\ SortStepDone
    /\ Len(Lines) >= 3
    /\ ~IsSorted(Lines)
    /\ \E p, q \in Pages : Count(Lines, path(1, p)) = 1 /\ Count(Lines, path(2, q)) = 1

(***************************************************************************)
(* C18: in the sorted manifest, of two entries of the same chapter the one *)
(* with the smaller page number comes first; and an entry of a chapter     *)
(* 10..19 comes before an entry of a chapter 2..9, against the numeric     *)
(* order of the chapters.                                                  *)
(***************************************************************************)
\* x and y are lines of ls and x comes first
Before(ls, x, y) ==
    \E k, m \in 1..Len(ls) : k < m /\ ls[k] = x /\ ls[m] = y

C18_Order ==
    SortStepDone =>
        LET out == splitlines(sortedFile.data)
        IN  \A a, b \in images :
                /\ (a[1] = b[1] /\ a[2] < b[2]) =>
                      Before(out, path(a[1], a[2]), path(b[1], b[2]))
                /\ (a[1] \in 10..LastChapter /\ b[1] \in 2..9) =>
                      Before(out, path(a[1], a[2]), path(b[1], b[2]))

\* a manifest listing a page of a chapter 2..9 and then a page of a
\* chapter 10..19 has been sorted
C18_Witness ==
    /\ SortStepDone
    /\ \E a, b \in images :
          /\ a[1] \in 2..9
          /\ b[1] \in 10..LastChapter
          /\ a[2] < b[2]
          /\ Lines = <<path(a[1], a[2]), path(b[1], b[2])>>
          /\ splitlines(sortedFile.data) = <<path(b[1], b[2]), path(a[1], a[2])>>

(***************************************************************************)
(* C19: in a run started without a manifest in which no call of            *)
(* download_image returned True, download_chapters returns normally and    *)
(* generate_pdf can only raise at the open of the manifest: the run is     *)
(* about to open it or has aborted there, and neither the sorted manifest  *)
(* nor subject.pdf exists.  No exception reaches the top level from the    *)
(* download phase.                                                         *)
(***************************************************************************)
NoneFetched == \A c \in Chapters, p \in Pages : ret[c][p] # "True"

C20_PoolSize ==
    /\ \A prog \in Programs, n \in 0..MaxCpuCount :
          /\ n_cores(prog, n) \in 1..PoolCap
          /\ n = 0 => n_cores(prog, n) = DefaultCores
    /\ K \in 1..PoolCap
    /\ cpu = 0 => K = DefaultCores
    /\ Cardinality(DOMAIN tasks) <= K
    /\ Cardinality(InFlight) <= K
    /\ \A c \in Chapters : \A b \in 1..Len(batches[c]) :
          /\ Len(batches[c][b]) = IF b = 1 THEN 1 ELSE K
          /\ Len(batches[c][b]) <= K
          /\ Cardinality(BatchPages(c, b)) = Len(batches[c][b])

\* with two cores a batch fills the pool: K calls are in flight at once
C20_Witness ==
    /\ cpu = 2
    /\ K = 2
    /\ pc = "map"
    /\ Cardinality(InFlight) = K
    /\ Len(batches[chap][Len(batches[chap])]) = K

=============================================================================
